---- MODULE Spec2Model ----
(***************************************************************************)
(* Model of tools/bench.py, the benchmark orchestrator of ssg.              *)
(*                                                                         *)
(* One behaviour is one run of the orchestrator: either the script is      *)
(* started with a command line (entry "main": parse_args, main's dispatch, *)
(* one handler, sys.exit) or a handler is called with an argument object   *)
(* that never went through parse_args (entry "call").                      *)
(*                                                                         *)
(* Strings that the program concatenates (RUSTFLAGS, printed lines) are    *)
(* sequences of fragments and concatenation is \o; the empty string is     *)
(* << >>.  An argument vector is a sequence of strings.  A dict is a       *)
(* function whose domain is its key set; the two registries, whose order   *)
(* matters, are sequences of [key, target] entries in declaration order.   *)
(***************************************************************************)
EXTENDS Integers, Sequences, FiniteSets, TLC

\* ------------------------------------------------------------------ bounds

\* longest list of extra arguments on the command line
MaxExtraLen == 2
\* a child exits with a code in 0..MaxExitCode, or is killed by a signal
MaxExitCode == 2

\* ------------------------------------------------------- module constants

CRITERION_BENCHES ==
  << [key |-> "pipeline",     target |-> "criterion_pipeline"],
     [key |-> "transformers", target |-> "criterion_transformers"],
     [key |-> "io",           target |-> "criterion_io"] >>

DHAT_BENCHES ==
  << [key |-> "build",        target |-> "dhat_build"],
     [key |-> "transformers", target |-> "dhat_transformers"],
     [key |-> "compress",     target |-> "dhat_compress"] >>

\* the suffix handle_run appends to RUSTFLAGS under --native
NativeSuffix == << " -C target-cpu=native" >>

\* ---------------------------------------------------------------- inputs

\* words the user can put where the subcommand goes (<< >>: none given)
CommandWords == { << >>, <<"run">>, <<"dhat">>, <<"list">>, <<"bogus">> }

\* values the user can give to --bench (<< >>: option not given)
BenchWords ==
  { << >>, <<"all">>, <<"pipeline">>, <<"transformers">>, <<"io">>,
    <<"build">>, <<"compress">>, <<"bogus">> }

ExtraWords == { "--x", "--profile" }

ExtraLists == UNION { [1..n -> ExtraWords] : n \in 0..MaxExtraLen }

\* what subprocess.call can return: the child's exit code, or -signal
ExitCodes == (0..MaxExitCode) \cup { -9 }

\* the environment the orchestrator inherits: RUSTFLAGS absent, empty,
\* set, or already ending in the native suffix
InheritedEnvs ==
  { [PATH |-> <<"/usr/bin">>] }
  \cup { [PATH |-> <<"/usr/bin">>, RUSTFLAGS |-> r] :
           r \in { << >>, <<"-Z foo">>, <<"-Z foo">> \o NativeSuffix } }

\* ----------------------------------------------------------------- state

VARIABLES
  input,       \* what this run was started with (never assigned again)
  environ0,    \* os.environ as inherited at process start (never assigned again)
  environ,     \* os.environ
  registries,  \* the module globals CRITERION_BENCHES and DHAT_BENCHES
  pc,          \* position of the single thread of control
  ns,          \* the argparse namespace (class Args)
  hargs,       \* the RunArgs / DhatArgs object the handler was called with
  env,         \* handle_run's local env
  extra,       \* the handler's local extra
  benches,     \* the handler's local benches
  idx,         \* position of the for loop in benches
  code,        \* the handler's local code
  cmd,         \* the handler's local cmd
  trace,       \* observable events in order: prints, child launches, child exits
  dispatched,  \* handlers main has dispatched to, in order
  ret,         \* << >>, or <<v>> once the handler has returned v
  raised,      \* "" or the exception that ended the run
  exitStatus   \* << >>, or <<s>> once the process has exited with status s

vars == << input, environ0, environ, registries, pc, ns, hargs, env, extra,
           benches, idx, code, cmd, trace, dispatched, ret, raised, exitStatus >>

\* ---------------------------------------------------------------- events

NoEnv == [v \in {} |-> << >>]

PrintEv(stream, text) ==
  [ev |-> "print", stream |-> stream, text |-> text, argv |-> << >>,
   env |-> NoEnv, rc |-> 0]

LaunchEv(argv, e) ==
  [ev |-> "launch", stream |-> "", text |-> << >>, argv |-> argv,
   env |-> e, rc |-> 0]

ExitEv(rc) ==
  [ev |-> "exit", stream |-> "", text |-> << >>, argv |-> << >>,
   env |-> NoEnv, rc |-> rc]

\* -------------------------------------------------------------- registry

Keys(table) == { table[j].key : j \in DOMAIN table }

\* list(table.values())
Values(table) == [j \in DOMAIN table |-> table[j].target]

\* table[k], for k a key of table
Lookup(table, k) == table[CHOOSE j \in DOMAIN table : table[j].key = k].target

\* ["all", *table.keys()]
Choices(table) == {"all"} \cup Keys(table)

benches_to_run_fallback(selected, table) ==
  [ok |-> TRUE,
   value |-> IF selected \in Keys(table) THEN << Lookup(table, selected) >>
             ELSE Values(table)]

benches_to_run_reversed(selected, table) ==
  IF selected = "all"
    THEN [ok |-> TRUE,
          value |-> [j \in DOMAIN table |-> table[Len(table) + 1 - j].target]]
    ELSE IF selected \in Keys(table)
      THEN [ok |-> TRUE, value |-> << Lookup(table, selected) >>]
      ELSE [ok |-> FALSE, value |-> << >>]

\* ok = FALSE: table[selected] raised KeyError
benches_to_run(selected, table) ==
  IF selected = "all"
    THEN [ok |-> TRUE, value |-> Values(table)]
    ELSE IF selected \in Keys(table)
      THEN [ok |-> TRUE, value |-> << Lookup(table, selected) >>]
      ELSE [ok |-> FALSE, value |-> << >>]

\* ------------------------------------------------------------ parse_args

Subcommands == {"run", "dhat", "list"}

BenchChoiceOk_unchecked(cl, regs) == TRUE

\* the choices= check of --bench in the subparser of cl.command
BenchChoiceOk(cl, regs) ==
  \/ cl.bench = << >>
  \/ cl.command = <<"run">>  /\ cl.bench[1] \in Choices(regs.criterion)
  \/ cl.command = <<"dhat">> /\ cl.bench[1] \in Choices(regs.dhat)

\* the command line is accepted by the parser
ParseOk(cl, regs) ==
  /\ cl.command # << >>
  /\ cl.command[1] \in Subcommands
  /\ cl.command = <<"run">>  => BenchChoiceOk(cl, regs)
  /\ cl.command = <<"dhat">> => BenchChoiceOk(cl, regs) /\ ~cl.native
  /\ cl.command = <<"list">> =>
       cl.bench = << >> /\ ~cl.native /\ cl.extra = << >>

\* Args(): the namespace before parsing
ArgsInit == [command |-> "", bench |-> "", native |-> FALSE, extra |-> << >>]

\* the namespace after a successful parse
Parsed(cl) ==
  IF cl.command = <<"list">>
    THEN [ArgsInit EXCEPT !.command = "list"]
    ELSE [command |-> cl.command[1],
          bench   |-> IF cl.bench = << >> THEN "all" ELSE cl.bench[1],
          native  |-> cl.native,
          extra   |-> cl.extra]

\* parser.error() exits the process with this status
ParserErrorStatus == 2

\* an exception nobody catches ends the interpreter with this status
UncaughtStatus == 1

\* sys.exit(n) for an int n: the low eight bits reach the parent
ExitStatusOf(n) == n % 256

\* -------------------------------------------------------------- builders

NativeOverlay_replace(e) ==
  [v \in DOMAIN e \cup {"RUSTFLAGS"} |->
     IF v = "RUSTFLAGS" THEN NativeSuffix ELSE e[v]]

\* env["RUSTFLAGS"] = env.get("RUSTFLAGS", "") + " -C target-cpu=native"
NativeOverlay(e) ==
  [v \in DOMAIN e \cup {"RUSTFLAGS"} |->
     IF v = "RUSTFLAGS"
       THEN (IF "RUSTFLAGS" \in DOMAIN e THEN e["RUSTFLAGS"] ELSE << >>)
            \o NativeSuffix
       ELSE e[v]]

RunCmd_separator(bench, xs) ==
  <<"cargo", "bench", "--bench", bench, "--">> \o xs

\* cmd = ["cargo", "bench", "--bench", bench]; cmd.extend(extra)
RunCmd(bench, xs) == <<"cargo", "bench", "--bench", bench>> \o xs

DhatCmd_always(bench, xs) ==
  <<"cargo", "bench", "--bench", bench, "--">> \o <<"--profile">> \o xs

\* cmd = [..., "--"]; if not extra: cmd.append("--profile"); cmd.extend(extra)
DhatCmd(bench, xs) ==
  <<"cargo", "bench", "--bench", bench, "--">>
  \o (IF xs = << >> THEN <<"--profile">> ELSE << >>)
  \o xs

\* f"\n=== Running {bench} ==="
Banner(bench) == << "\n=== Running ", bench, " ===" >>

MoreBenches_stop_on_failure(i, bs, c) == i < Len(bs) /\ c = 0

\* the for loop over benches has another element after the i-th
MoreBenches(i, bs, c) == i < Len(bs)

BitOr_last(a, b) == b

\* a | b on Python ints (two's complement of unbounded width)
RECURSIVE BitOr(_, _)
BitOr(a, b) ==
  IF a = 0 THEN b
  ELSE IF b = 0 THEN a
  ELSE IF a = -1 \/ b = -1 THEN -1
  ELSE 2 * BitOr(a \div 2, b \div 2)
       + (IF a % 2 = 1 \/ b % 2 = 1 THEN 1 ELSE 0)

\* ------------------------------------------------------------------ Init

Init ==
  \E e \in {"main", "call"}, c \in CommandWords, b \in BenchWords,
     n \in BOOLEAN, x \in ExtraLists, inherited \in InheritedEnvs :
    \* a handler called directly gets a RunArgs / DhatArgs object (a bench
    \* string; native only in RunArgs) or, for handle_list, nothing
    /\ e = "call" =>
         /\ c \in { <<"run">>, <<"dhat">>, <<"list">> }
         /\ c = <<"list">> => b = << >> /\ ~n /\ x = << >>
         /\ c # <<"list">> => b # << >>
         /\ c = <<"dhat">> => ~n
    /\ input = [entry |-> e, command |-> c, bench |-> b, native |-> n,
                extra |-> x]
    /\ environ0 = inherited
    /\ environ = inherited
    /\ registries = [criterion |-> CRITERION_BENCHES, dhat |-> DHAT_BENCHES]
    /\ pc = IF e = "main" THEN "parse_args" ELSE "handle_" \o c[1]
    /\ ns = ArgsInit
    /\ hargs = IF e = "call" /\ c # <<"list">>
                 THEN [bench |-> b[1], native |-> n, extra |-> x]
                 ELSE [bench |-> "", native |-> FALSE, extra |-> << >>]
    /\ env = NoEnv
    /\ extra = << >>
    /\ benches = << >>
    /\ idx = 0
    /\ code = 0
    /\ cmd = << >>
    /\ trace = << >>
    /\ dispatched = << >>
    /\ ret = << >>
    /\ raised = ""
    /\ exitStatus = << >>

\* --------------------------------------------------------------- actions

\* main: args = parse_args()
ParseArgs ==
  /\ pc = "parse_args"
  /\ IF ParseOk(input, registries)
       THEN /\ ns' = Parsed(input)
            /\ pc' = "dispatch"
            /\ UNCHANGED << trace, raised, exitStatus >>
       ELSE /\ trace' = Append(trace, PrintEv("stderr", <<"usage error">>))
            /\ raised' = "SystemExit"
            /\ exitStatus' = << ParserErrorStatus >>
            /\ pc' = "exited"
            /\ UNCHANGED ns
  /\ UNCHANGED << input, environ0, environ, registries, hargs, env, extra,
                  benches, idx, code, cmd, dispatched, ret >>

\* main: the chain of if command == ...: return handle_...(...)
Dispatch ==
  /\ pc = "dispatch"
  /\ IF ns.command \in Subcommands
       THEN /\ pc' = "handle_" \o ns.command
            /\ dispatched' = Append(dispatched, ns.command)
            /\ hargs' = [bench  |-> ns.bench,
                         native |-> (ns.command = "run" /\ ns.native),
                         extra  |-> ns.extra]
            /\ ret' = ret
       ELSE /\ pc' = "return"
            /\ ret' = << 1 >>
            /\ UNCHANGED << dispatched, hargs >>
  /\ UNCHANGED << input, environ0, environ, registries, ns, env, extra,
                  benches, idx, code, cmd, trace, raised, exitStatus >>

\* handle_run up to the loop: the environment copy, the native overlay,
\* the resolution and the empty check
HandleRunEnter ==
  /\ pc = "handle_run"
  /\ LET e == IF hargs.native THEN NativeOverlay(environ) ELSE environ
         r == benches_to_run(hargs.bench, registries.criterion)
     IN  /\ env' = e
         /\ extra' = hargs.extra
         /\ IF ~r.ok
              THEN /\ raised' = "KeyError"
                   /\ exitStatus' = << UncaughtStatus >>
                   /\ pc' = "exited"
                   /\ UNCHANGED << benches, idx, code, trace, ret >>
              ELSE IF r.value = << >>
                THEN /\ trace' = Append(trace,
                          PrintEv("stderr", <<"No criterion benches selected.">>))
                     /\ ret' = << 1 >>
                     /\ pc' = "return"
                     /\ UNCHANGED << benches, idx, code, raised, exitStatus >>
                ELSE /\ benches' = r.value
                     /\ code' = 0
                     /\ idx' = 1
                     /\ pc' = "run_loop"
                     /\ UNCHANGED << trace, ret, raised, exitStatus >>
  /\ UNCHANGED << input, environ0, environ, registries, ns, hargs, cmd,
                  dispatched >>

\* handle_run, loop body up to the call: build cmd, print the banner
RunBuild ==
  /\ pc = "run_loop"
  /\ cmd' = RunCmd(benches[idx], extra)
  /\ trace' = Append(trace, PrintEv("stdout", Banner(benches[idx])))
  /\ pc' = "run_call"
  /\ UNCHANGED << input, environ0, environ, registries, ns, hargs, env, extra,
                  benches, idx, code, dispatched, ret, raised, exitStatus >>

\* subprocess.call(cmd, cwd=REPO_ROOT, env=env): the child starts
RunLaunch ==
  /\ pc = "run_call"
  /\ trace' = Append(trace, LaunchEv(cmd, env))
  /\ pc' = "run_wait"
  /\ UNCHANGED << input, environ0, environ, registries, ns, hargs, env, extra,
                  benches, idx, code, cmd, dispatched, ret, raised, exitStatus >>

\* subprocess.call returns rc; code |= rc; next element or return code
RunChildExit ==
  /\ pc = "run_wait"
  /\ \E rc \in ExitCodes :
       LET c == BitOr(code, rc)
       IN  /\ trace' = Append(trace, ExitEv(rc))
           /\ code' = c
           /\ IF MoreBenches(idx, benches, c)
                THEN /\ idx' = idx + 1
                     /\ pc' = "run_loop"
                     /\ ret' = ret
                ELSE /\ idx' = idx
                     /\ pc' = "return"
                     /\ ret' = << c >>
  /\ UNCHANGED << input, environ0, environ, registries, ns, hargs, env, extra,
                  benches, cmd, dispatched, raised, exitStatus >>

\* handle_dhat up to the loop: the resolution and the empty check
HandleDhatEnter ==
  /\ pc = "handle_dhat"
  /\ LET r == benches_to_run(hargs.bench, registries.dhat)
     IN  /\ extra' = hargs.extra
         /\ IF ~r.ok
              THEN /\ raised' = "KeyError"
                   /\ exitStatus' = << UncaughtStatus >>
                   /\ pc' = "exited"
                   /\ UNCHANGED << benches, idx, code, trace, ret >>
              ELSE IF r.value = << >>
                THEN /\ trace' = Append(trace,
                          PrintEv("stderr", <<"No dhat benches selected.">>))
                     /\ ret' = << 1 >>
                     /\ pc' = "return"
                     /\ UNCHANGED << benches, idx, code, raised, exitStatus >>
                ELSE /\ benches' = r.value
                     /\ code' = 0
                     /\ idx' = 1
                     /\ pc' = "dhat_loop"
                     /\ UNCHANGED << trace, ret, raised, exitStatus >>
  /\ UNCHANGED << input, environ0, environ, registries, ns, hargs, env, cmd,
                  dispatched >>

\* handle_dhat, loop body up to the call: build cmd, print the banner
DhatBuild ==
  /\ pc = "dhat_loop"
  /\ cmd' = DhatCmd(benches[idx], extra)
  /\ trace' = Append(trace, PrintEv("stdout", Banner(benches[idx])))
  /\ pc' = "dhat_call"
  /\ UNCHANGED << input, environ0, environ, registries, ns, hargs, env, extra,
                  benches, idx, code, dispatched, ret, raised, exitStatus >>

\* subprocess.call(cmd, cwd=REPO_ROOT): the child starts with os.environ
DhatLaunch ==
  /\ pc = "dhat_call"
  /\ trace' = Append(trace, LaunchEv(cmd, environ))
  /\ pc' = "dhat_wait"
  /\ UNCHANGED << input, environ0, environ, registries, ns, hargs, env, extra,
                  benches, idx, code, cmd, dispatched, ret, raised, exitStatus >>

\* subprocess.call returns rc; code |= rc; next element or return code
DhatChildExit ==
  /\ pc = "dhat_wait"
  /\ \E rc \in ExitCodes :
       LET c == BitOr(code, rc)
       IN  /\ trace' = Append(trace, ExitEv(rc))
           /\ code' = c
           /\ IF MoreBenches(idx, benches, c)
                THEN /\ idx' = idx + 1
                     /\ pc' = "dhat_loop"
                     /\ ret' = ret
                ELSE /\ idx' = idx
                     /\ pc' = "return"
                     /\ ret' = << c >>
  /\ UNCHANGED << input, environ0, environ, registries, ns, hargs, env, extra,
                  benches, cmd, dispatched, raised, exitStatus >>

\* the lines handle_list prints for one registry; the key is left-justified
\* in a field of twelve columns, the padding blanks are not kept
ListLines(table) ==
  [j \in DOMAIN table |->
     PrintEv("stdout", <<"  ", table[j].key, " -> ", table[j].target>>)]

ListOutput_criterion_only(regs) ==
  << PrintEv("stdout", <<"Criterion benches:">>) >>
  \o ListLines(regs.criterion)
  \o << PrintEv("stdout", <<"\nDhat benches:">>) >>

\* everything handle_list prints
ListOutput(regs) ==
  << PrintEv("stdout", <<"Criterion benches:">>) >>
  \o ListLines(regs.criterion)
  \o << PrintEv("stdout", <<"\nDhat benches:">>) >>
  \o ListLines(regs.dhat)

\* handle_list
HandleList ==
  /\ pc = "handle_list"
  /\ trace' = trace \o ListOutput(registries)
  /\ ret' = << 0 >>
  /\ pc' = "return"
  /\ UNCHANGED << input, environ0, environ, registries, ns, hargs, env, extra,
                  benches, idx, code, cmd, dispatched, raised, exitStatus >>

\* sys.exit(main())
SysExit ==
  /\ pc = "return"
  /\ exitStatus' = << ExitStatusOf(ret[1]) >>
  /\ pc' = "exited"
  /\ UNCHANGED << input, environ0, environ, registries, ns, hargs, env, extra,
                  benches, idx, code, cmd, trace, dispatched, ret, raised >>

Next ==
  \/ ParseArgs
  \/ Dispatch
  \/ HandleRunEnter
  \/ RunBuild
  \/ RunLaunch
  \/ RunChildExit
  \/ HandleDhatEnter
  \/ DhatBuild
  \/ DhatLaunch
  \/ DhatChildExit
  \/ HandleList
  \/ SysExit

Spec == Init /\ [][Next]_vars

\* ------------------------------------------------- reading the trace

Launches == SelectSeq(trace, LAMBDA e : e.ev = "launch")

Exits == SelectSeq(trace, LAMBDA e : e.ev = "exit")

ChildEvents == SelectSeq(trace, LAMBDA e : e.ev \in {"launch", "exit"})

\* the target of each launch: the word after --bench
LaunchTargets == [j \in DOMAIN Launches |-> Launches[j].argv[4]]

ExitCodesSeen == [j \in DOMAIN Exits |-> Exits[j].rc]

IsPrefix(s, t) == Len(s) <= Len(t) /\ \A j \in DOMAIN s : s[j] = t[j]

IsRun == input.command = <<"run">>

IsDhat == input.command = <<"dhat">>

\* the selection of this run ("all" when --bench is not given)
Sel == IF input.bench = << >> THEN "all" ELSE input.bench[1]

\* the registry the command of this run is declared to use
DeclaredTable == IF IsRun THEN CRITERION_BENCHES ELSE DHAT_BENCHES

\* the selection is neither "all" nor a key of the command's registry
InvalidSelection ==
  /\ IsRun \/ IsDhat
  /\ Sel # "all"
  /\ \A j \in DOMAIN DeclaredTable : DeclaredTable[j].key # Sel

\* the selection is valid and resolves to no target
EmptySelection ==
  /\ IsRun \/ IsDhat
  /\ Sel = "all"
  /\ DeclaredTable = << >>

\* the handler has left its loop by returning
LoopReturned == benches # << >> /\ ret # << >>

\* ---------------------------------------------------------------- claims

\* C1: in run and dhat, the children launched are the resolved targets, in
\* order, each once, whatever the children's exit codes; a child is launched
\* only after the previous one has exited.
C1_SequentialLaunches ==
  /\ \A j \in DOMAIN ChildEvents :
       ChildEvents[j].ev = IF j % 2 = 1 THEN "launch" ELSE "exit"
  /\ IsPrefix(LaunchTargets, benches)
  /\ \A j, k \in DOMAIN LaunchTargets :
       LaunchTargets[j] = LaunchTargets[k] => j = k
  /\ LoopReturned =>
       /\ Len(benches) >= 1
       /\ LaunchTargets = benches
       /\ Len(Exits) = Len(benches)

C1_Witness ==
  /\ pc = "exited"
  /\ Len(Launches) = 3
  /\ ExitCodesSeen[1] # 0
  /\ ExitCodesSeen[2] # 0

\* bit k of the two's complement form of n
Bit(n, k) == (n \div (2 ^ k)) % 2

\* C2: the status a handler returns after its loop is the bitwise OR of
\* the exit codes of all its children: zero exactly when all are zero.
C2_AggregateIsBitwiseOr ==
  LoopReturned =>
    /\ \A k \in 0..8 :
         Bit(ret[1], k) = 1 <=> \E j \in DOMAIN Exits : Bit(Exits[j].rc, k) = 1
    /\ ret[1] < 0 <=> \E j \in DOMAIN Exits : Exits[j].rc < 0
    /\ ret[1] = 0 <=> \A j \in DOMAIN Exits : Exits[j].rc = 0
    /\ ExitCodesSeen = <<0, 1, 0>> => ret[1] = 1
    /\ ExitCodesSeen = <<0, 0, 0>> => ret[1] = 0

C2_Witness ==
  /\ LoopReturned
  /\ ExitCodesSeen = <<0, 1, 0>>
  /\ ret = <<1>>

\* C3: with a selection that is neither "all" nor a key of the command's
\* registry, or that resolves to nothing, no child is ever launched.
C3_FailFast ==
  (InvalidSelection \/ EmptySelection) => Launches = << >>

C3_Witness ==
  /\ InvalidSelection
  /\ pc = "exited"
  /\ raised = "KeyError"
  /\ Launches = << >>

\* C4 as stated: the exit code is 1 whenever the --bench key is invalid,
\* on the parser's path as on the registry lookup's.
C4_InvalidKeyExitsOne ==
  (pc = "exited" /\ (InvalidSelection \/ EmptySelection)) => exitStatus = <<1>>

\* C4 as amended: an invalid key rejected by the parser's choices check
\* exits 2; one that reaches the registry lookup raises KeyError, which
\* uncaught exits 1; an empty selection exits 1.
C4_InvalidKeyExitStatus ==
  /\ (pc = "exited" /\ InvalidSelection) =>
        IF input.entry = "main"
          THEN raised = "SystemExit" /\ exitStatus = <<2>>
          ELSE raised = "KeyError" /\ exitStatus = <<1>>
  /\ (pc = "exited" /\ EmptySelection /\ raised = "") => exitStatus = <<1>>

C4_Witness ==
  /\ pc = "exited"
  /\ InvalidSelection
  /\ input.entry = "main"
  /\ input.bench = <<"build">>
  /\ exitStatus = <<2>>

ExpectedChildEnv ==
  IF IsRun /\ input.native
    THEN [v \in DOMAIN environ0 \cup {"RUSTFLAGS"} |->
            IF v = "RUSTFLAGS"
              THEN (IF "RUSTFLAGS" \in DOMAIN environ0
                      THEN environ0["RUSTFLAGS"] ELSE << >>)
                   \o << " -C target-cpu=native" >>
              ELSE environ0[v]]
    ELSE environ0

C7_DhatArgv ==
  IsDhat =>
    \A j \in DOMAIN Launches :
      Launches[j].argv =
        <<"cargo", "bench", "--bench", benches[j], "--">>
        \o (IF input.extra = << >> THEN <<"--profile">> ELSE input.extra)

C7_Witness ==
  /\ IsDhat
  /\ input.extra = <<"--x">>
  /\ Len(Launches) = 3
  /\ Launches[3].argv = <<"cargo", "bench", "--bench", "dhat_compress", "--", "--x">>

\* C8: every run child is cargo bench --bench target followed by the extra
\* arguments as given; the caller's list is not changed; run --bench
\* pipeline launches criterion_pipeline and nothing else.
C8_RunArgv ==
  /\ IsRun =>
       \A j \in DOMAIN Launches :
         Launches[j].argv =
           <<"cargo", "bench", "--bench", benches[j]>> \o input.extra
  /\ (IsRun /\ pc \in {"run_loop", "run_call", "run_wait", "return", "exited"}
        /\ raised # "SystemExit") => hargs.extra = input.extra
  /\ (IsRun /\ Sel = "pipeline" /\ pc \in {"return", "exited"}) =>
       LaunchTargets = <<"criterion_pipeline">>

C8_Witness ==
  /\ IsRun
  /\ input.extra = <<"--x", "--x">>
  /\ Len(Launches) = 3
  /\ Launches[3].argv = <<"cargo", "bench", "--bench", "criterion_io", "--x", "--x">>

\* the key -> target lines of the output, in order
ListedPairs ==
  LET ls == SelectSeq(trace, LAMBDA e : e.ev = "print" /\ Len(e.text) = 4)
  IN  [j \in DOMAIN ls |-> <<ls[j].text[2], ls[j].text[4]>>]

DeclaredPairs ==
  [j \in DOMAIN CRITERION_BENCHES |->
     <<CRITERION_BENCHES[j].key, CRITERION_BENCHES[j].target>>]
  \o [j \in DOMAIN DHAT_BENCHES |->
     <<DHAT_BENCHES[j].key, DHAT_BENCHES[j].target>>]

\* what C9 says of list
ListIsPure ==
  /\ registries = [criterion |-> CRITERION_BENCHES, dhat |-> DHAT_BENCHES]
  /\ input.command = <<"list">> => Launches = << >>
  /\ (input.command = <<"list">> /\ pc \in {"return", "exited"}
        /\ raised = "") =>
       /\ ret = <<0>>
       /\ ListedPairs = DeclaredPairs
       /\ pc = "exited" => exitStatus = <<0>>

\* C9 as stated: list launches nothing, prints both registries in order
\* and returns 0; every process run dispatches to exactly one handler.
C9_ListAndExactlyOneHandler ==
  /\ ListIsPure
  /\ (input.entry = "main" /\ pc = "exited") => Len(dispatched) = 1

\* C9 as amended: list launches nothing, prints both registries in order
\* and returns 0; a process run whose command line the parser accepts
\* dispatches to exactly one handler, the one its command names, and a run
\* whose command line is rejected dispatches to none.
C9_ListAndOneHandlerWhenParsed ==
  /\ ListIsPure
  /\ Len(dispatched) <= 1
  /\ (input.entry = "main" /\ pc \notin {"parse_args", "dispatch"}) =>
       IF raised = "SystemExit"
         THEN dispatched = << >>
         ELSE dispatched = << input.command[1] >>

C9_Witness ==
  /\ input.entry = "main"
  /\ input.command = <<"list">>
  /\ pc = "exited"
  /\ dispatched = <<"list">>
  /\ exitStatus = <<0>>
  /\ Len(trace) = 8

\* every word of argv is a fragment of the printed text
Shows(text, argv) ==
  \A j \in DOMAIN argv : \E k \in DOMAIN text : text[k] = argv[j]

\* trace[q] is printed before the launch trace[p], after the previous exit
AnnouncedAt(q, p) ==
  /\ q < p
  /\ trace[q].ev = "print"
  /\ trace[q].stream = "stdout"
  /\ \A m \in (q + 1)..(p - 1) : trace[m].ev # "exit"

\* C10 as stated: before each launch, after the previous child's exit, the
\* full argument vector that is then executed is printed.
C10_AnnouncesArgv ==
  \A p \in DOMAIN trace :
    trace[p].ev = "launch" =>
      \E q \in DOMAIN trace :
        AnnouncedAt(q, p) /\ Shows(trace[q].text, trace[p].argv)

\* What the code prints instead: before each
\* launch, after the previous child's exit, a banner naming the target of
\* the launch; no line of the output shows the argument vector.
BannerBeforeLaunch ==
  \A p \in DOMAIN trace :
    trace[p].ev = "launch" =>
      /\ \E q \in DOMAIN trace :
           /\ AnnouncedAt(q, p)
           /\ trace[q].text = <<"\n=== Running ", trace[p].argv[4], " ===">>
      /\ \A q \in DOMAIN trace :
           trace[q].ev = "print" => ~Shows(trace[q].text, trace[p].argv)

====
